---- MODULE Spec2Model ----
(***************************************************************************)
(* Ticketmaster MCP server (src/events.py): the startup credential check,  *)
(* the request gateway, the response extractor, the event formatter and    *)
(* the six tool entry points.                                              *)
(*                                                                         *)
(* Text is a sequence of atoms.  An atom is a TLA+ string standing for a   *)
(* fixed piece of text: one character where the code looks inside the      *)
(* text (the venue prefix, the genre names), a whole literal elsewhere.    *)
(* Concatenation is \o, the empty text is << >>.                           *)
(*                                                                         *)
(* A JSON value is a record with one field per JSON type, so that any two  *)
(* values can be compared: t is the type, and n, s, l, o hold the number,  *)
(* the text, the list or the object (a function from key to value).        *)
(* Python's None is the JSON null.                                         *)
(***************************************************************************)
EXTENDS Integers, Sequences, FiniteSets, TLC

VARIABLES phase, apiKey, pc, tool, args, params, endpoint, sent, opened,
          connOpen, outcome, gw, data, events, result,
          fmtPc, fmtEvent, fmtOut, fmtAvail

vars == <<phase, apiKey, pc, tool, args, params, endpoint, sent, opened,
          connOpen, outcome, gw, data, events, result,
          fmtPc, fmtEvent, fmtOut, fmtAvail>>

serverVars == <<phase, apiKey, pc, tool, args, params, endpoint, sent, opened,
                connOpen, outcome, gw, data, events, result>>

fmtVars == <<fmtPc, fmtEvent, fmtOut, fmtAvail>>

-----------------------------------------------------------------------------
(* Bounds of the model. *)

\* Longest venue text enumerated character by character.
MaxVenueLen == 4

\* Longest events list a payload carries.
MaxEvents == 2

-----------------------------------------------------------------------------
(* JSON values and the Python operations the code applies to them. *)

J(t, n, s, l, o) == [t |-> t, n |-> n, s |-> s, l |-> l, o |-> o]

JNull == J("null", 0, <<>>, <<>>, <<>>)

JNum(k) == J("num", k, <<>>, <<>>, <<>>)

JStr(s) == J("str", 0, s, <<>>, <<>>)

JList(l) == J("list", 0, <<>>, l, <<>>)

JObj(o) == J("obj", 0, <<>>, <<>>, o)

\* The key k with value v when p holds, and nothing otherwise.
Opt(p, k, v) == IF p THEN k :> v ELSE <<>>

NL == "\n"

IsSubstr(sub, s) ==
    \E i \in 0..(Len(s) - Len(sub)) : SubSeq(s, i + 1, i + Len(sub)) = sub

\* bool(x)
Truthy(x) ==
    CASE x.t = "null" -> FALSE
      [] x.t = "num"  -> x.n # 0
      [] x.t = "str"  -> x.s # <<>>
      [] x.t = "list" -> x.l # <<>>
      [] x.t = "obj"  -> DOMAIN x.o # {}

\* str(x), as an f-string renders it.  A list or an object renders as one
\* atom that stands for its repr.
PyStr(x) ==
    CASE x.t = "null" -> <<"None">>
      [] x.t = "num"  -> <<ToString(x.n)>>
      [] x.t = "str"  -> x.s
      [] x.t = "list" -> <<"[...]">>
      [] x.t = "obj"  -> <<"{...}">>

\* `k in x`, where the code subscripts x[k] as soon as the test is true:
\* "yes" and "no" for a dict; for a list or a text that holds k the test is
\* true and the subscript raises TypeError, otherwise "no"; for None or a
\* number the test itself raises TypeError.
Has(x, k) ==
    CASE x.t = "obj"  -> IF k \in DOMAIN x.o THEN "yes" ELSE "no"
      [] x.t = "list" -> IF \E i \in 1..Len(x.l) : x.l[i] = JStr(<<k>>)
                         THEN "raise" ELSE "no"
      [] x.t = "str"  -> IF IsSubstr(<<k>>, x.s) THEN "raise" ELSE "no"
      [] OTHER        -> "raise"

\* x.get(k, d) on a dict x.
Get(x, k, d) == IF k \in DOMAIN x.o THEN x.o[k] ELSE d

\* The outcome of evaluating a piece of code that yields text: the text, or
\* the exception it raised.
Ok(s) == [ok |-> TRUE, s |-> s, exc |-> ""]

Raise(e) == [ok |-> FALSE, s |-> <<>>, exc |-> e]

\* The same for a piece of code that yields a JSON value.
OkV(v) == [ok |-> TRUE, v |-> v, exc |-> ""]

RaiseV(e) == [ok |-> FALSE, v |-> JNull, exc |-> e]

\* sep.join(parts), parts a sequence of texts.
RECURSIVE Join(_, _)
Join(parts, sep) ==
    IF parts = <<>> THEN <<>>
    ELSE IF Len(parts) = 1 THEN parts[1]
    ELSE parts[1] \o sep \o Join(Tail(parts), sep)

UpperCase == <<"A", "B", "C", "D", "E", "F", "G", "H", "I", "J", "K", "L", "M",
               "N", "O", "P", "Q", "R", "S", "T", "U", "V", "W", "X", "Y", "Z">>

LowerCase == <<"a", "b", "c", "d", "e", "f", "g", "h", "i", "j", "k", "l", "m",
               "n", "o", "p", "q", "r", "s", "t", "u", "v", "w", "x", "y", "z">>

\* text.lower(), character by character.
Lower(s) ==
    [i \in 1..Len(s) |->
        IF \E j \in 1..26 : UpperCase[j] = s[i]
        THEN LowerCase[CHOOSE j \in 1..26 : UpperCase[j] = s[i]]
        ELSE s[i]]

\* Mutant of StartsWith: only the first character is compared.
StartsWithFirstChar(s, prefix) ==
    /\ Len(s) >= 1
    /\ s[1] = prefix[1]

\* text.startswith(prefix)
StartsWith(s, prefix) ==
    /\ Len(s) >= Len(prefix)
    /\ SubSeq(s, 1, Len(prefix)) = prefix

-----------------------------------------------------------------------------
(* format_event: one optional line per section, "" when the section is    *)
(* absent.                                                                *)

\* Lines 57-65.
date_info(event) ==
    LET h1 == Has(event, "dates") IN
    IF h1 = "no" THEN Ok(<<>>) ELSE IF h1 = "raise" THEN Raise("TypeError") ELSE
    LET dates == event.o["dates"]
        h2 == Has(dates, "start") IN
    IF h2 = "no" THEN Ok(<<>>) ELSE IF h2 = "raise" THEN Raise("TypeError") ELSE
    LET start_date == dates.o["start"]
        h3 == Has(start_date, "localDate") IN
    IF h3 = "no" THEN Ok(<<>>) ELSE IF h3 = "raise" THEN Raise("TypeError") ELSE
    LET date == start_date.o["localDate"] IN
    IF "localTime" \in DOMAIN start_date.o
    THEN \* date += f" {...}" needs a text on the left
         IF date.t # "str" THEN Raise("TypeError")
         ELSE Ok(<<"Date: ">> \o date.s \o <<" ">>
                   \o PyStr(start_date.o["localTime"]) \o <<NL>>)
    ELSE Ok(<<"Date: ">> \o PyStr(date) \o <<NL>>)

\* venue.get(k, {}).get("name", ""), lines 74-76.
venue_part(venue, k) ==
    LET sub == Get(venue, k, JObj(<<>>)) IN
    IF sub.t # "obj" THEN RaiseV("AttributeError")
    ELSE OkV(Get(sub, "name", JStr(<<>>)))

\* Lines 67-78.
venue_info(event) ==
    LET h1 == Has(event, "embedded") IN
    IF h1 = "no" THEN Ok(<<>>) ELSE IF h1 = "raise" THEN Raise("TypeError") ELSE
    LET outer == event.o["embedded"]
        h2 == Has(outer, "_embedded") IN
    IF h2 = "no" THEN Ok(<<>>) ELSE IF h2 = "raise" THEN Raise("TypeError") ELSE
    LET inner == outer.o["_embedded"]
        h3 == Has(inner, "venues") IN
    IF h3 = "no" THEN Ok(<<>>) ELSE IF h3 = "raise" THEN Raise("TypeError") ELSE
    LET venues == inner.o["venues"] IN
    IF ~Truthy(venues) THEN Ok(<<>>)
    ELSE IF venues.t # "list" THEN Raise("TypeError")
    ELSE
    LET venue == venues.l[1] IN
    IF venue.t # "obj" THEN Raise("AttributeError") ELSE
    LET venue_name == Get(venue, "name", JStr(<<"Unknown Venue">>))
        city == venue_part(venue, "city")
        state == venue_part(venue, "state")
        country == venue_part(venue, "country") IN
    IF ~(city.ok /\ state.ok /\ country.ok) THEN Raise("AttributeError") ELSE
    LET parts == SelectSeq(<<city.v, state.v, country.v>>, Truthy) IN
    \* ", ".join takes texts only
    IF \E i \in 1..Len(parts) : parts[i].t # "str" THEN Raise("TypeError") ELSE
    LET location == Join([i \in 1..Len(parts) |-> parts[i].s], <<", ">>) IN
    Ok(<<"Venue: ">> \o PyStr(venue_name) \o <<", ">> \o location \o <<NL>>)

\* Lines 85-91 and 341-347: the price text of one price range, without the
\* line break; "" when neither branch is taken.
price_text(range) ==
    LET min_price == Get(range, "min", JNull)
        max_price == Get(range, "max", JNull)
        currency == Get(range, "currency", JStr(<<"USD">>)) IN
    IF Truthy(min_price) /\ Truthy(max_price)
    THEN <<"Price Range: ">> \o PyStr(min_price) \o <<"-">> \o PyStr(max_price)
             \o <<" ">> \o PyStr(currency)
    ELSE IF Truthy(min_price)
    THEN <<"Starting Price: ">> \o PyStr(min_price) \o <<" ">> \o PyStr(currency)
    ELSE <<>>

\* Lines 82-84 and 338-340: the first price range of a record, when the
\* code reaches it.
first_price_range(event) ==
    IF "priceRanges" \notin DOMAIN event.o THEN OkV(JNull)
    ELSE
    LET price_ranges == event.o["priceRanges"] IN
    IF ~Truthy(price_ranges) THEN OkV(JNull)
    ELSE IF price_ranges.t # "list" THEN RaiseV("TypeError")
    ELSE IF price_ranges.l[1].t # "obj" THEN RaiseV("AttributeError")
    ELSE OkV(price_ranges.l[1])

\* Lines 80-91.
price_info(event) ==
    LET first == first_price_range(event) IN
    IF ~first.ok THEN Raise(first.exc)
    ELSE IF first.v = JNull THEN Ok(<<>>)
    ELSE LET text == price_text(first.v) IN
         IF text = <<>> THEN Ok(<<>>) ELSE Ok(text \o <<NL>>)

\* Lines 97-107 and 324-334: the label of a status code, "" when the code
\* is not one of the five.
status_label(status_code) ==
    IF status_code = JStr(<<"onsale">>) THEN <<"On Sale">>
    ELSE IF status_code = JStr(<<"offsale">>) THEN <<"Off Sale">>
    ELSE IF status_code = JStr(<<"cancelled">>) THEN <<"Cancelled">>
    ELSE IF status_code = JStr(<<"postponed">>) THEN <<"Postponed">>
    ELSE IF status_code = JStr(<<"rescheduled">>) THEN <<"Rescheduled">>
    ELSE <<>>

\* Lines 95-97 and 322-324: the status code of a record, JNull when the
\* record has no status.
status_code_of(event) ==
    LET h1 == Has(event, "dates") IN
    IF h1 = "no" THEN OkV(JNull) ELSE IF h1 = "raise" THEN RaiseV("TypeError") ELSE
    LET dates == event.o["dates"]
        h2 == Has(dates, "status") IN
    IF h2 = "no" THEN OkV(JNull) ELSE IF h2 = "raise" THEN RaiseV("TypeError") ELSE
    LET status == dates.o["status"] IN
    IF status.t # "obj" THEN RaiseV("AttributeError")
    ELSE OkV(Get(status, "code", JStr(<<>>)))

\* Lines 93-107.
ticket_info(event) ==
    LET code == status_code_of(event) IN
    IF ~code.ok THEN Raise(code.exc)
    ELSE LET label == status_label(code.v) IN
         IF label = <<>> THEN Ok(<<>>)
         ELSE Ok(<<"Ticket Status: ">> \o label \o <<NL>>)

\* Lines 109-112.
url_info(event) ==
    IF "url" \in DOMAIN event.o
    THEN Ok(<<"Tickets: ">> \o PyStr(event.o["url"]) \o <<NL>>)
    ELSE Ok(<<>>)

Undefined == <<"u", "n", "d", "e", "f", "i", "n", "e", "d">>

\* Mutant of not_undefined: the comparison without .lower().
not_undefined_exact(name) == name # Undefined

\* name.lower() != "undefined", lines 122, 127, 132.
not_undefined(name) == Lower(name) # Undefined

\* Lines 120-123 (and 125-128, 130-133): the name one classification
\* component adds to the genre line, "" when it adds none.
genre_part(classification, k) ==
    LET h == Has(classification, k) IN
    IF h = "no" THEN Ok(<<>>) ELSE IF h = "raise" THEN Raise("TypeError") ELSE
    LET part == classification.o[k] IN
    IF ~Truthy(part) THEN Ok(<<>>)
    ELSE IF part.t # "obj" THEN Raise("AttributeError")
    ELSE
    LET name == Get(part, "name", JNull) IN
    IF ~Truthy(name) THEN Ok(<<>>)
    ELSE IF name.t # "str" THEN Raise("AttributeError")
    ELSE IF not_undefined(name.s) THEN Ok(name.s)
    ELSE Ok(<<>>)

\* Lines 114-136.
genre_info(event) ==
    IF "classifications" \notin DOMAIN event.o THEN Ok(<<>>) ELSE
    LET cls == event.o["classifications"] IN
    IF ~Truthy(cls) THEN Ok(<<>>)
    \* a number is not subscriptable, a dict has no key 0
    ELSE IF cls.t \in {"num", "obj"} THEN Raise("TypeError")
    ELSE
    LET classification == IF cls.t = "list" THEN cls.l[1] ELSE JStr(<<cls.s[1]>>)
        seg == genre_part(classification, "segment")
        gen == genre_part(classification, "genre")
        sub == genre_part(classification, "subGenre") IN
    IF ~seg.ok THEN Raise(seg.exc)
    ELSE IF ~gen.ok THEN Raise(gen.exc)
    ELSE IF ~sub.ok THEN Raise(sub.exc)
    ELSE
    LET segments == SelectSeq(<<seg.s, gen.s, sub.s>>, LAMBDA s : s # <<>>) IN
    IF segments = <<>> THEN Ok(<<>>)
    ELSE Ok(<<"Genre: ">> \o Join(segments, <<" | ">>) \o <<NL>>)

\* Lines 53-142.  The sections are evaluated in the order of the code, so
\* the first one that raises decides the exception.
format_event(event) ==
    IF event.t # "obj" THEN Raise("AttributeError") ELSE
    LET name == Get(event, "name", JStr(<<"Unknown Event">>))
        d == date_info(event)
        v == venue_info(event)
        p == price_info(event)
        t == ticket_info(event)
        u == url_info(event)
        g == genre_info(event) IN
    IF ~d.ok THEN d
    ELSE IF ~v.ok THEN v
    ELSE IF ~p.ok THEN p
    ELSE IF ~t.ok THEN t
    ELSE IF ~u.ok THEN u
    ELSE IF ~g.ok THEN g
    ELSE Ok(<<NL, "Event: ">> \o PyStr(name) \o <<NL>>
            \o d.s \o v.s \o g.s \o p.s \o t.s \o u.s \o <<NL>>)

\* Lines 144-152.
extract_events(payload) ==
    LET h1 == Has(payload, "_embedded") IN
    IF h1 = "no" THEN OkV(JList(<<>>)) ELSE IF h1 = "raise" THEN RaiseV("TypeError") ELSE
    LET embedded == payload.o["_embedded"]
        h2 == Has(embedded, "events") IN
    IF h2 = "no" THEN OkV(JList(<<>>)) ELSE IF h2 = "raise" THEN RaiseV("TypeError")
    ELSE OkV(embedded.o["events"])

\* Lines 320-359: what check_ticket_availability renders from the record
\* the gateway returned.
availability_text(record) ==
    IF record.t # "obj" THEN
        \* the `in` tests of lines 322 and 338 pass over a list or a text
        \* that holds neither key, and line 350 then calls .get on it
        IF Has(record, "dates") = "raise" \/ Has(record, "priceRanges") = "raise"
        THEN Raise("TypeError") ELSE Raise("AttributeError")
    ELSE
    LET code == status_code_of(record)
        first == first_price_range(record) IN
    IF ~code.ok THEN Raise(code.exc)
    ELSE IF ~first.ok THEN Raise(first.exc)
    ELSE
    LET label == status_label(code.v)
        ticket_status == IF label = <<>> THEN <<"Unknown">> ELSE label
        text == IF first.v = JNull THEN <<>> ELSE price_text(first.v)
        price == IF text = <<>> THEN <<"Price information not available">> ELSE text
        ticket_link == Get(record, "url", JStr(<<"No ticket link available">>))
        event_name == Get(record, "name", JStr(<<"Unknown Event">>)) IN
    Ok(<<NL, "Ticket Availability for: ">> \o PyStr(event_name) \o <<NL>>
        \o <<"Status: ">> \o ticket_status \o <<NL>>
        \o price \o <<NL>>
        \o <<"Ticket Link: ">> \o PyStr(ticket_link) \o <<NL>>)

-----------------------------------------------------------------------------
(* The request gateway, make_ticketmaster_request. *)

\* Mutant of credential_missing: `if TICKETMASTER_API_KEY is None`.
credential_unset_only(key) == key = JNull

\* Line 26: `if not TICKETMASTER_API_KEY`.
credential_missing(key) == ~Truthy(key)

\* Lines 33-38: the GET the gateway issues, the API key added to the
\* caller's parameters.
request_of(path, p, key) ==
    [endpoint |-> path, params |-> ("apikey" :> key) @@ p]

\* Line 39, response.raise_for_status(): raises for every status that is
\* not a 2xx.
raise_for_status(status) == ~(200 <= status /\ status <= 299)

\* What the gateway hands back on a failure: {"error": message}.
Failure(branch, message) ==
    [branch |-> branch, data |-> JObj("error" :> JStr(message))]

\* Mutant of gateway_result: no branch for status 401.
gateway_result_no_401(o) ==
    IF o.kind = "transport"
    THEN Failure("connection_failed", <<"Failed to connect to Ticketmaster API.">>)
    ELSE IF o.kind = "other"
    THEN Failure("unexpected", <<"An unexpected error occurred: ">> \o o.desc)
    ELSE IF raise_for_status(o.status)
    THEN IF o.status = 429
         THEN Failure("rate_limited", <<"Rate limit exceeded. Please try again later.">>)
         ELSE Failure("http_error", <<"HTTP error: ", ToString(o.status)>>)
    ELSE IF ~o.json
    THEN Failure("unexpected", <<"An unexpected error occurred: ">> \o o.desc)
    ELSE [branch |-> "ok", data |-> o.payload]

\* Lines 37-51: the branch the gateway takes for an outcome of the GET, and
\* the value it returns.
gateway_result(o) ==
    IF o.kind = "transport"
    THEN Failure("connection_failed", <<"Failed to connect to Ticketmaster API.">>)
    ELSE IF o.kind = "other"
    THEN Failure("unexpected", <<"An unexpected error occurred: ">> \o o.desc)
    ELSE IF raise_for_status(o.status)
    THEN IF o.status = 429
         THEN Failure("rate_limited", <<"Rate limit exceeded. Please try again later.">>)
         ELSE IF o.status = 401
         THEN Failure("unauthorized", <<"Unauthorized. Please check your API key.">>)
         ELSE Failure("http_error", <<"HTTP error: ", ToString(o.status)>>)
    ELSE IF ~o.json
    THEN \* response.json() raises inside the try block
         Failure("unexpected", <<"An unexpected error occurred: ">> \o o.desc)
    ELSE [branch |-> "ok", data |-> o.payload]

-----------------------------------------------------------------------------
(* The tool entry points: the parameters each one builds, and what it     *)
(* makes of the value the gateway returned.                               *)

DefaultSize == 5

KovZ == <<"K", "o", "v", "Z">>

\* Lines 199, 239, 288: {k: v for k, v in params.items() if v is not None}.
remove_none(p) == [k \in {key \in DOMAIN p : p[key] # JNull} |-> p[k]]

\* Lines 163-167.
artist_params(artist, size) ==
    ("keyword" :> JStr(artist)) @@ ("size" :> JNum(size))
        @@ ("sort" :> JStr(<<"date,asc">>))

\* Lines 191-199.
venue_params(venue, size) ==
    remove_none(
        ("venueId" :> (IF StartsWith(venue, KovZ) THEN JStr(venue) ELSE JNull))
        @@ ("keyword" :> (IF StartsWith(venue, KovZ) THEN JNull ELSE JStr(venue)))
        @@ ("size" :> JNum(size))
        @@ ("sort" :> JStr(<<"date,asc">>)))

\* Lines 230-239.  state is None or a text.
location_params(city, state, country, size) ==
    remove_none(
        ("city" :> JStr(city)) @@ ("stateCode" :> state)
        @@ ("countryCode" :> JStr(country)) @@ ("size" :> JNum(size))
        @@ ("sort" :> JStr(<<"date,asc">>)))

\* Lines 280-288.  city is None or a text.
genre_params(genre, city, size) ==
    remove_none(
        ("classificationName" :> JStr(genre)) @@ ("city" :> city)
        @@ ("size" :> JNum(size)) @@ ("sort" :> JStr(<<"date,asc">>)))

\* Lines 262-264 and 313-315: f"events/{event_id}.json".
detail_endpoint(event_id) == <<"events/">> \o event_id \o <<".json">>

\* Lines 226-228.
location_text(city, state) ==
    IF Truthy(state) THEN city \o <<",">> \o state.s ELSE city

\* Lines 298 and 303.
location_info(city) == IF Truthy(city) THEN <<" in ">> \o city.s ELSE <<>>

\* The message of a search tool for an empty result: lines 177, 209, 249,
\* 298-299.
no_results_text(t, a) ==
    CASE t = "artist"   -> <<"No upcoming events found for artist: ">> \o a.artist.s
      [] t = "venue"    -> <<"No upcoming events found for venue: ">> \o a.venue.s
      [] t = "location" -> <<"No upcoming events found in ">>
                               \o location_text(a.city.s, a.state)
      [] t = "genre"    -> <<"No upcoming ">> \o a.genre.s \o <<" events found">>
                               \o location_info(a.city)

\* The header of a search tool's result, with the blank line after it:
\* lines 181, 213, 253, 303-304.
header_text(t, a) ==
    CASE t = "artist"   -> <<"Upcoming events for ">> \o a.artist.s \o <<":", NL, NL>>
      [] t = "venue"    -> <<"Upcoming events at ">> \o a.venue.s \o <<":", NL, NL>>
      [] t = "location" -> <<"Upcoming events in ">>
                               \o location_text(a.city.s, a.state) \o <<":", NL, NL>>
      [] t = "genre"    -> <<"Upcoming ">> \o a.genre.s \o <<" events">>
                               \o location_info(a.city) \o <<":", NL, NL>>

\* Lines 171-172 (and the same test in each tool): the text returned when
\* the value the gateway returned holds "error", "" when it does not.
error_text(d) ==
    LET h == Has(d, "error") IN
    IF h = "raise" THEN Raise("TypeError")
    ELSE IF h = "yes" THEN Ok(<<"Error: ">> \o PyStr(d.o["error"]))
    ELSE Ok(<<>>)

\* Lines 179-181: the events formatted and joined under the header.  A
\* value that is true and not a list has no dicts to iterate over.
formatted_text(evs, header) ==
    IF evs.t # "list" THEN Raise("TypeError")
    ELSE
    LET formatted_events == [i \in 1..Len(evs.l) |-> format_event(evs.l[i])] IN
    IF \E i \in 1..Len(evs.l) : ~formatted_events[i].ok
    THEN formatted_events[CHOOSE i \in 1..Len(evs.l) :
             /\ ~formatted_events[i].ok
             /\ \A j \in 1..(i - 1) : formatted_events[j].ok]
    ELSE Ok(header \o Join([i \in 1..Len(evs.l) |-> formatted_events[i].s], <<NL>>))

\* Lines 171-181, 203-213, 243-253, 292-304: a search tool after the
\* gateway returned d.
search_result(t, a, d) ==
    LET err == error_text(d) IN
    IF ~err.ok \/ err.s # <<>> THEN err
    ELSE
    LET evs == extract_events(d) IN
    IF ~evs.ok THEN Raise(evs.exc)
    ELSE IF ~Truthy(evs.v) THEN Ok(no_results_text(t, a))
    ELSE formatted_text(evs.v, header_text(t, a))

\* Lines 266-269.
details_result(d) ==
    LET err == error_text(d) IN
    IF ~err.ok \/ err.s # <<>> THEN err ELSE format_event(d)

\* Lines 317-359.
availability_result(d) ==
    LET err == error_text(d) IN
    IF ~err.ok \/ err.s # <<>> THEN err ELSE availability_text(d)

SearchTools == {"artist", "venue", "location", "genre"}

\* What the entry point hands to the host, or the exception that leaves it.
tool_result(t, a, d) ==
    IF t \in SearchTools THEN search_result(t, a, d)
    ELSE IF t = "details" THEN details_result(d)
    ELSE availability_result(d)

\* The value extract_events gave, for the tools and payloads that reach it.
tool_events(t, d) ==
    IF t \in SearchTools /\ error_text(d) = Ok(<<>>)
    THEN extract_events(d)
    ELSE [ok |-> FALSE, v |-> JNull, exc |-> "-"]

-----------------------------------------------------------------------------
(* The inputs the model draws from. *)

\* Sequences over S of length at most n.
SeqsUpTo(S, n) == UNION {[1..k -> S] : k \in 0..n}

Radiohead == <<"Radiohead">>

KovZ917M == <<"K", "o", "v", "Z", "9", "1", "7", "M">>

MadisonSquareGarden ==
    <<"M", "a", "d", "i", "s", "o", "n", " ", "S", "q", "u", "a", "r", "e", " ",
      "G", "a", "r", "d", "e", "n">>

VenueAlphabet == {"K", "o", "v", "Z"}

Venues == SeqsUpTo(VenueAlphabet, MaxVenueLen) \cup {KovZ917M, MadisonSquareGarden}

Artists == {<<>>, Radiohead}

Cities == {<<>>, <<"Boston">>}

\* An optional text argument: None, "" or a text.
OptStates == {JNull, JStr(<<>>), JStr(<<"MA">>)}

OptCities == {JNull, JStr(<<>>), JStr(<<"Boston">>)}

Countries == {<<"US">>, <<"CA">>}

Genres == {<<"rock">>}

EventIds == {<<"G5vYZ9">>}

Sizes == {1, DefaultSize}

\* os.getenv: None when the variable is unset, else its text.
EnvKeys == {JNull, JStr(<<>>), JStr(<<"k", "e", "y">>)}

FullEvent ==
    JObj(("name" :> JStr(<<"Concert">>))
         @@ ("dates" :> JObj(
                ("start" :> JObj(("localDate" :> JStr(<<"2026-01-02">>))
                                 @@ ("localTime" :> JStr(<<"20:00:00">>))))
                @@ ("status" :> JObj("code" :> JStr(<<"onsale">>)))))
         @@ ("priceRanges" :> JList(<<JObj(("min" :> JNum(20)) @@ ("max" :> JNum(50)))>>))
         @@ ("url" :> JStr(<<"https://tm/e1">>)))

BareEvent == JObj(<<>>)

NullDatesEvent == JObj(("name" :> JStr(<<"Gig">>)) @@ ("dates" :> JNull))

SampleEvents == {FullEvent, BareEvent, NullDatesEvent}

Envelope(evs) == JObj("_embedded" :> JObj("events" :> evs))

\* The JSON bodies of a 2xx response.
Payloads ==
    {JNull, JList(<<>>), JStr(<<"error">>), JObj(<<>>),
     JObj("error" :> JStr(<<"quota">>)),
     JObj("_embedded" :> JNull),
     JObj("_embedded" :> JObj(<<>>)),
     JObj("_embedded" :> JList(<<JStr(<<"events">>)>>)),
     Envelope(JNull)}
    \cup {Envelope(JList(l)) : l \in SeqsUpTo(SampleEvents, MaxEvents)}
    \cup SampleEvents

ErrorStatuses == {301, 400, 401, 404, 429, 500, 503}

NoOutcome ==
    [kind |-> "none", status |-> 0, json |-> FALSE, payload |-> JNull, desc |-> <<>>]

\* The outcomes of the GET: a 2xx response with a JSON body, a 2xx response
\* whose body is not JSON, a response with another status, a transport
\* failure (httpx.RequestError), any other exception.
Outcomes ==
    {[kind |-> "http", status |-> st, json |-> TRUE, payload |-> p, desc |-> <<>>] :
        st \in {200}, p \in Payloads}
    \cup {[kind |-> "http", status |-> 204, json |-> FALSE, payload |-> JNull,
           desc |-> <<"Expecting value">>]}
    \cup {[kind |-> "http", status |-> st, json |-> FALSE, payload |-> JNull,
           desc |-> <<>>] : st \in ErrorStatuses}
    \cup {[kind |-> "transport", status |-> 0, json |-> FALSE, payload |-> JNull,
           desc |-> <<>>]}
    \cup {[kind |-> "other", status |-> 0, json |-> FALSE, payload |-> JNull,
           desc |-> <<"boom">>]}

NoArgs ==
    [artist |-> JNull, venue |-> JNull, city |-> JNull, state |-> JNull,
     country |-> JNull, genre |-> JNull, event_id |-> JNull, size |-> JNull]

Pending == [ok |-> FALSE, s |-> <<>>, exc |-> "-"]

NotExtracted == [ok |-> FALSE, v |-> JNull, exc |-> "-"]

-----------------------------------------------------------------------------
(* The server: startup, then one tool invocation at a time. *)

IdleInvocation ==
    /\ pc = "idle"
    /\ tool = "none"
    /\ args = NoArgs
    /\ params = <<>>
    /\ endpoint = <<>>
    /\ sent = <<>>
    /\ opened = 0
    /\ connOpen = FALSE
    /\ outcome = NoOutcome
    /\ gw = "none"
    /\ data = JNull
    /\ events = NotExtracted
    /\ result = Pending

FormatterOff ==
    /\ fmtPc = "off"
    /\ fmtEvent = JNull
    /\ fmtOut = Pending
    /\ fmtAvail = Pending

\* Lines 17-23: the environment is read once.
Init ==
    /\ phase = "boot"
    /\ apiKey \in EnvKeys
    /\ IdleInvocation
    /\ FormatterOff

\* Lines 26-27: the module stops with ValueError when the key is missing.
LoadModule ==
    /\ phase = "boot"
    /\ phase' = IF credential_missing(apiKey) THEN "crashed" ELSE "loaded"
    /\ UNCHANGED <<apiKey, pc, tool, args, params, endpoint, sent, opened,
                   connOpen, outcome, gw, data, events, result>>
    /\ UNCHANGED fmtVars

\* Lines 362-363: mcp.run serves the tools.
RunServer ==
    /\ phase = "loaded"
    /\ phase' = "serving"
    /\ UNCHANGED <<apiKey, pc, tool, args, params, endpoint, sent, opened,
                   connOpen, outcome, gw, data, events, result>>
    /\ UNCHANGED fmtVars

\* Lines 29-38: the entry point calls the gateway, which adds the API key,
\* opens a client and issues the GET; the invocation then waits for the
\* response.
Call(t, a, path, p) ==
    /\ tool' = t
    /\ args' = a
    /\ endpoint' = path
    /\ params' = request_of(path, p, apiKey).params
    /\ opened' = opened + 1
    /\ connOpen' = TRUE
    /\ sent' = Append(sent, request_of(path, p, apiKey))
    /\ pc' = "awaiting"
    /\ UNCHANGED <<phase, apiKey, outcome, gw, data, events, result>>
    /\ UNCHANGED fmtVars

\* Lines 156-169.
search_events_by_artist ==
    /\ phase = "serving"
    /\ pc = "idle"
    /\ \E artist \in Artists, size \in Sizes :
        Call("artist",
             [NoArgs EXCEPT !.artist = JStr(artist), !.size = JNum(size)],
             <<"events.json">>, artist_params(artist, size))

\* Lines 184-201.
search_events_by_venue ==
    /\ phase = "serving"
    /\ pc = "idle"
    /\ \E venue \in Venues, size \in Sizes :
        Call("venue",
             [NoArgs EXCEPT !.venue = JStr(venue), !.size = JNum(size)],
             <<"events.json">>, venue_params(venue, size))

\* Lines 216-241.
search_events_by_location ==
    /\ phase = "serving"
    /\ pc = "idle"
    /\ \E city \in Cities, state \in OptStates, country \in Countries, size \in Sizes :
        Call("location",
             [NoArgs EXCEPT !.city = JStr(city), !.state = state,
                            !.country = JStr(country), !.size = JNum(size)],
             <<"events.json">>, location_params(city, state, country, size))

\* Lines 272-290.
search_events_by_genre ==
    /\ phase = "serving"
    /\ pc = "idle"
    /\ \E genre \in Genres, city \in OptCities, size \in Sizes :
        Call("genre",
             [NoArgs EXCEPT !.genre = JStr(genre), !.city = city, !.size = JNum(size)],
             <<"events.json">>, genre_params(genre, city, size))

\* Lines 256-264.
get_event_details ==
    /\ phase = "serving"
    /\ pc = "idle"
    /\ \E event_id \in EventIds :
        Call("details", [NoArgs EXCEPT !.event_id = JStr(event_id)],
             detail_endpoint(event_id), <<>>)

\* Lines 307-315.
check_ticket_availability ==
    /\ phase = "serving"
    /\ pc = "idle"
    /\ \E event_id \in EventIds :
        Call("availability", [NoArgs EXCEPT !.event_id = JStr(event_id)],
             detail_endpoint(event_id), <<>>)

\* Lines 38-51: the GET ends and the gateway picks the value it returns; no
\* branch issues another request.
Respond ==
    /\ pc = "awaiting"
    /\ \E o \in Outcomes :
        /\ outcome' = o
        /\ gw' = gateway_result(o).branch
        /\ data' = gateway_result(o).data
    /\ pc' = "responded"
    /\ UNCHANGED <<phase, apiKey, tool, args, params, endpoint, sent, opened,
                   connOpen, events, result>>
    /\ UNCHANGED fmtVars

\* Mutant of CloseClient: the client is closed on the success path only.
CloseClientOnSuccess ==
    /\ pc = "responded"
    /\ connOpen' = (gw # "ok")
    /\ pc' = "returned"
    /\ UNCHANGED <<phase, apiKey, tool, args, params, endpoint, sent, opened,
                   outcome, gw, data, events, result>>
    /\ UNCHANGED fmtVars

\* Line 36: leaving the `async with` block releases the client, whichever
\* return statement left it.
CloseClient ==
    /\ pc = "responded"
    /\ connOpen' = FALSE
    /\ pc' = "returned"
    /\ UNCHANGED <<phase, apiKey, tool, args, params, endpoint, sent, opened,
                   outcome, gw, data, events, result>>
    /\ UNCHANGED fmtVars

\* The rest of the entry point, from the gateway's return to its own.
Finish ==
    /\ pc = "returned"
    /\ events' = tool_events(tool, data)
    /\ result' = tool_result(tool, args, data)
    /\ pc' = "done"
    /\ UNCHANGED <<phase, apiKey, tool, args, params, endpoint, sent, opened,
                   connOpen, outcome, gw, data>>
    /\ UNCHANGED fmtVars

\* The host takes the result; nothing of the invocation is kept.
Deliver ==
    /\ pc = "done"
    /\ pc' = "idle"
    /\ tool' = "none"
    /\ args' = NoArgs
    /\ params' = <<>>
    /\ endpoint' = <<>>
    /\ sent' = <<>>
    /\ opened' = 0
    /\ connOpen' = FALSE
    /\ outcome' = NoOutcome
    /\ gw' = "none"
    /\ data' = JNull
    /\ events' = NotExtracted
    /\ result' = Pending
    /\ UNCHANGED <<phase, apiKey>>
    /\ UNCHANGED fmtVars

Next ==
    \/ LoadModule
    \/ RunServer
    \/ search_events_by_artist
    \/ search_events_by_venue
    \/ search_events_by_location
    \/ search_events_by_genre
    \/ get_event_details
    \/ check_ticket_availability
    \/ Respond
    \/ CloseClient
    \/ Finish
    \/ Deliver

Spec == Init /\ [][Next]_vars

-----------------------------------------------------------------------------
(* The formatter on its own: format_event and the rendering of            *)
(* check_ticket_availability applied to event records whose optional      *)
(* fields are missing in every combination.  Each set below holds the     *)
(* variants of one section of the record, as the keys it adds.            *)

Chars_Music == <<"M", "u", "s", "i", "c">>

Chars_Rock == <<"R", "o", "c", "k">>

Chars_Pop == <<"P", "o", "p">>

Chars_Undefined == <<"U", "n", "d", "e", "f", "i", "n", "e", "d">>

Chars_UNDEFINED == <<"U", "N", "D", "E", "F", "I", "N", "E", "D">>

NameV == {<<>>, "name" :> JStr(<<"Concert">>)}

StartV ==
    {<<>>,
     "start" :> JObj(<<>>),
     "start" :> JObj("localDate" :> JStr(<<"2026-01-02">>)),
     "start" :> JObj(("localDate" :> JStr(<<"2026-01-02">>))
                     @@ ("localTime" :> JStr(<<"20:00:00">>))),
     "start" :> JObj("localTime" :> JStr(<<"20:00:00">>))}

StatusCodes == {"onsale", "offsale", "cancelled", "postponed", "rescheduled", "tba"}

StatusV ==
    {<<>>, "status" :> JObj(<<>>)}
    \cup {"status" :> JObj("code" :> JStr(<<c>>)) : c \in StatusCodes}

DatesV == {<<>>} \cup {"dates" :> JObj(st @@ ss) : st \in StartV, ss \in StatusV}

DatesB ==
    {<<>>,
     "dates" :> JObj(("start" :> JObj("localDate" :> JStr(<<"2026-01-02">>)))
                     @@ ("status" :> JObj("code" :> JStr(<<"onsale">>))))}

PriceV ==
    {<<>>, "priceRanges" :> JList(<<>>)}
    \cup {"priceRanges" :> JList(<<JObj(mn @@ mx @@ cur)>>) :
            mn \in {<<>>, "min" :> JNum(0), "min" :> JNum(20)},
            mx \in {<<>>, "max" :> JNum(0), "max" :> JNum(50)},
            cur \in {<<>>, "currency" :> JStr(<<"EUR">>)}}

PriceB ==
    {<<>>, "priceRanges" :> JList(<<JObj(("min" :> JNum(20)) @@ ("max" :> JNum(50)))>>)}

UrlV == {<<>>, "url" :> JStr(<<"https://tm/e1">>)}

ClassV ==
    {<<>>, "classifications" :> JList(<<>>)}
    \cup {"classifications" :> JList(<<JObj(sg @@ g @@ sb)>>) :
            sg \in {<<>>, "segment" :> JObj(<<>>),
                    "segment" :> JObj("name" :> JStr(Chars_Music)),
                    "segment" :> JObj("name" :> JStr(Chars_Undefined))},
            g \in {<<>>, "genre" :> JObj("name" :> JStr(Chars_Rock)),
                   "genre" :> JObj("name" :> JStr(Undefined))},
            sb \in {<<>>, "subGenre" :> JObj("name" :> JStr(Chars_Pop)),
                    "subGenre" :> JObj("name" :> JStr(Chars_UNDEFINED))}}

ClassB ==
    {<<>>, "classifications" :> JList(<<JObj("genre" :> JObj("name" :> JStr(Chars_Rock)))>>)}

VenueRecord(v) == "embedded" :> JObj("_embedded" :> JObj("venues" :> JList(v)))

VenueV ==
    {<<>>, "embedded" :> JObj(<<>>), "embedded" :> JObj("_embedded" :> JObj(<<>>)),
     VenueRecord(<<>>)}
    \cup {VenueRecord(<<JObj(n @@ c @@ st @@ co)>>) :
            n \in {<<>>, "name" :> JStr(<<"Arena">>)},
            c \in {<<>>, "city" :> JObj("name" :> JStr(<<"Boston">>))},
            st \in {<<>>, "state" :> JObj("name" :> JStr(<<"Massachusetts">>))},
            co \in {<<>>, "country" :> JObj(<<>>),
                    "country" :> JObj("name" :> JStr(<<"United States">>))}}

VenueB ==
    {<<>>, VenueRecord(<<JObj(("name" :> JStr(<<"Arena">>))
                              @@ ("city" :> JObj("name" :> JStr(<<"Boston">>))))>>)}

\* Every variant of one section, with each other section absent or present.
EventRecords ==
    {JObj(n @@ d @@ p @@ u @@ c @@ v) :
        <<n, d, p, u, c, v>> \in
            (NameV \X DatesV \X PriceB \X UrlV \X ClassB \X VenueB)
            \cup (NameV \X DatesB \X PriceV \X UrlV \X ClassB \X VenueB)
            \cup (NameV \X DatesB \X PriceB \X UrlV \X ClassV \X VenueB)
            \cup (NameV \X DatesB \X PriceB \X UrlV \X ClassB \X VenueV)}

InitFormat ==
    /\ phase = "off"
    /\ apiKey = JNull
    /\ IdleInvocation
    /\ fmtPc = "input"
    /\ fmtEvent \in EventRecords
    /\ fmtOut = Pending
    /\ fmtAvail = Pending

\* format_event(event), lines 53-142.
Format ==
    /\ fmtPc = "input"
    /\ fmtOut' = format_event(fmtEvent)
    /\ fmtPc' = "formatted"
    /\ UNCHANGED <<fmtEvent, fmtAvail>>
    /\ UNCHANGED serverVars

\* The rendering of check_ticket_availability for the same record, lines
\* 320-359.
Availability ==
    /\ fmtPc = "formatted"
    /\ fmtAvail' = availability_text(fmtEvent)
    /\ fmtPc' = "rendered"
    /\ UNCHANGED <<fmtEvent, fmtOut>>
    /\ UNCHANGED serverVars

NextFormat ==
    \/ Format
    \/ Availability

FormatSpec == InitFormat /\ [][NextFormat]_vars

-----------------------------------------------------------------------------
(* The claims.  Each is stated on what the model records, in terms that   *)
(* do not go through the operator it is about.                            *)

Invoked == pc # "idle"

Returned == pc = "done"

ErrorOf(message) == JObj("error" :> JStr(message))

HasLine(r, label) == \E i \in 1..Len(r.s) : r.s[i] = label

\* The payload holds the path _embedded -> events.
HasEventsPath(p) ==
    /\ p.t = "obj"
    /\ "_embedded" \in DOMAIN p.o
    /\ p.o["_embedded"].t = "obj"
    /\ "events" \in DOMAIN p.o["_embedded"].o

\* The events a payload holds: the list at the path, none without it.
EventsIn(p) ==
    IF HasEventsPath(p) /\ p.o["_embedded"].o["events"].t = "list"
    THEN p.o["_embedded"].o["events"].l
    ELSE <<>>

\* C1: every invocation of a tool, whatever the arguments, the outcome of
\* the request and the JSON body of a successful response, ends by
\* returning a text to the host; no exception leaves the entry point.
C1_NoExceptionEscapes == Returned => result.ok

\* C2: the gateway takes exactly one branch per outcome: 429 is the
\* rate-limited failure, 401 the unauthorized failure, any other status
\* outside 2xx the HTTP-error failure carrying that status, a transport
\* failure the connection-failed failure, any other exception the
\* unexpected failure with its description, and a 2xx response with a JSON
\* body gives the payload itself through the branch that is no failure.
C2_GatewayClassification ==
    pc \in {"responded", "returned", "done"} =>
        /\ (outcome.kind = "http" /\ outcome.status = 429) =>
              /\ gw = "rate_limited"
              /\ data = ErrorOf(<<"Rate limit exceeded. Please try again later.">>)
        /\ (outcome.kind = "http" /\ outcome.status = 401) =>
              /\ gw = "unauthorized"
              /\ data = ErrorOf(<<"Unauthorized. Please check your API key.">>)
        /\ (outcome.kind = "http" /\ outcome.status \notin {401, 429}
                /\ (outcome.status < 200 \/ outcome.status > 299)) =>
              /\ gw = "http_error"
              /\ data = ErrorOf(<<"HTTP error: ", ToString(outcome.status)>>)
        /\ outcome.kind = "transport" =>
              /\ gw = "connection_failed"
              /\ data = ErrorOf(<<"Failed to connect to Ticketmaster API.">>)
        /\ outcome.kind = "other" =>
              /\ gw = "unexpected"
              /\ data = ErrorOf(<<"An unexpected error occurred: ">> \o outcome.desc)
        /\ (outcome.kind = "http" /\ outcome.status \in 200..299 /\ outcome.json) =>
              /\ gw = "ok"
              /\ data = outcome.payload

C2_Witness ==
    /\ pc = "responded"
    /\ outcome.kind = "http"
    /\ outcome.status = 401
    /\ gw = "unauthorized"

\* The message of the failure the request of this invocation ended in.
FailureMessage ==
    CASE outcome.kind = "transport" -> <<"Failed to connect to Ticketmaster API.">>
      [] outcome.kind = "other" -> <<"An unexpected error occurred: ">> \o outcome.desc
      [] outcome.kind = "http" /\ outcome.status = 429 ->
            <<"Rate limit exceeded. Please try again later.">>
      [] outcome.kind = "http" /\ outcome.status = 401 ->
            <<"Unauthorized. Please check your API key.">>
      [] outcome.kind = "http" /\ outcome.status \notin 200..299 ->
            <<"HTTP error: ", ToString(outcome.status)>>
      [] OTHER -> <<"An unexpected error occurred: ">> \o outcome.desc

GatewaySucceeded ==
    outcome.kind = "http" /\ outcome.status \in 200..299 /\ outcome.json

\* C3: the result of a search tool is decided by the outcome of the
\* gateway alone: "Error: <message>" when it failed; when it succeeded,
\* whatever keys the payload carries, the no-results message naming the
\* query (not an error) for zero events, and for one or more events the
\* header naming the query followed by one block per event, in order.
\* Stated for the invocations that return a text; C1 is about the others.
C3_SearchResultByOutcome ==
    (Returned /\ tool \in SearchTools /\ result.ok) =>
        IF ~GatewaySucceeded
        THEN result = Ok(<<"Error: ">> \o FailureMessage)
        ELSE IF EventsIn(outcome.payload) = <<>>
        THEN /\ result = Ok(no_results_text(tool, args))
             /\ result.s[1] # "Error: "
        ELSE LET evs == EventsIn(outcome.payload) IN
             result.s = header_text(tool, args)
                 \o Join([i \in 1..Len(evs) |-> format_event(evs[i]).s], <<NL>>)

\* C4: the request of search_events_by_venue carries exactly one of
\* venueId and keyword: venueId, and no keyword, when the venue text begins
\* with "KovZ"; keyword, and no venueId, otherwise.
C4_VenueIdOrKeyword ==
    (Invoked /\ tool = "venue") =>
        LET v == args.venue.s
            p == sent[1].params
            isId == /\ Len(v) >= 4
                    /\ v[1] = "K" /\ v[2] = "o" /\ v[3] = "v" /\ v[4] = "Z" IN
        /\ Len(sent) = 1
        /\ ("venueId" \in DOMAIN p) # ("keyword" \in DOMAIN p)
        /\ isId => ("venueId" \in DOMAIN p /\ p["venueId"] = JStr(v))
        /\ ~isId => ("keyword" \in DOMAIN p /\ p["keyword"] = JStr(v))

C4_Witness ==
    /\ pc = "awaiting"
    /\ tool = "venue"
    /\ args.venue = JStr(KovZ917M)
    /\ "venueId" \in DOMAIN sent[1].params
    /\ "keyword" \notin DOMAIN sent[1].params

\* C5: no request carries a filter whose value is null or empty: an
\* optional filter left unset or given as an empty value is omitted.
C5_NoNullOrEmptyFilter ==
    \A i \in 1..Len(sent) :
        \A k \in DOMAIN sent[i].params :
            /\ sent[i].params[k] # JNull
            /\ sent[i].params[k] # JStr(<<>>)

Formatted == fmtPc \in {"formatted", "rendered"}

DateField(e) ==
    /\ "dates" \in DOMAIN e.o
    /\ "start" \in DOMAIN e.o["dates"].o
    /\ "localDate" \in DOMAIN e.o["dates"].o["start"].o

VenueField(e) ==
    /\ "embedded" \in DOMAIN e.o
    /\ "_embedded" \in DOMAIN e.o["embedded"].o
    /\ "venues" \in DOMAIN e.o["embedded"].o["_embedded"].o
    /\ e.o["embedded"].o["_embedded"].o["venues"].l # <<>>

\* The record has a classification that names a segment, genre or subgenre.
ClassificationField(e) ==
    /\ "classifications" \in DOMAIN e.o
    /\ e.o["classifications"].l # <<>>
    /\ \E k \in {"segment", "genre", "subGenre"} :
        LET c == e.o["classifications"].l[1] IN
        /\ k \in DOMAIN c.o
        /\ "name" \in DOMAIN c.o[k].o

PriceField(e) ==
    /\ "priceRanges" \in DOMAIN e.o
    /\ e.o["priceRanges"].l # <<>>

\* The record has a status with a code.
StatusField(e) ==
    /\ "dates" \in DOMAIN e.o
    /\ "status" \in DOMAIN e.o["dates"].o
    /\ "code" \in DOMAIN e.o["dates"].o["status"].o

UrlField(e) == "url" \in DOMAIN e.o

HasPriceLine(r) == HasLine(r, "Price Range: ") \/ HasLine(r, "Starting Price: ")

HeaderOf(e, r) ==
    /\ Len(r.s) >= 3
    /\ r.s[1] = NL
    /\ r.s[2] = "Event: "
    /\ "name" \notin DOMAIN e.o => r.s[3] = "Unknown Event"

\* C6 as claimed: for every record and every subset of missing optional
\* fields format_event returns a block, and the block holds the Date,
\* Venue, Genre, Ticket Status or Tickets line exactly when the field is
\* present in the record; the header is always there, "Event: Unknown
\* Event" without a name.  The Price line of the claim is left to C7.
C6_LineIffFieldPresent ==
    Formatted =>
        /\ fmtOut.ok
        /\ HeaderOf(fmtEvent, fmtOut)
        /\ HasLine(fmtOut, "Date: ") <=> DateField(fmtEvent)
        /\ HasLine(fmtOut, "Venue: ") <=> VenueField(fmtEvent)
        /\ HasLine(fmtOut, "Genre: ") <=> ClassificationField(fmtEvent)
        /\ HasLine(fmtOut, "Ticket Status: ") <=> StatusField(fmtEvent)
        /\ HasLine(fmtOut, "Tickets: ") <=> UrlField(fmtEvent)

\* The first classification names a segment, genre or subgenre that is not
\* a spelling of "undefined".
GenreNamed(e) ==
    /\ "classifications" \in DOMAIN e.o
    /\ e.o["classifications"].l # <<>>
    /\ \E k \in {"segment", "genre", "subGenre"} :
        LET c == e.o["classifications"].l[1] IN
        /\ k \in DOMAIN c.o
        /\ "name" \in DOMAIN c.o[k].o
        /\ c.o[k].o["name"].s
               \notin {<<>>, Undefined, Chars_Undefined, Chars_UNDEFINED}

\* The status carries one of the five codes the formatter knows.
StatusRecognised(e) ==
    /\ StatusField(e)
    /\ e.o["dates"].o["status"].o["code"]
           \in {JStr(<<"onsale">>), JStr(<<"offsale">>), JStr(<<"cancelled">>),
                JStr(<<"postponed">>), JStr(<<"rescheduled">>)}

\* C6 as amended: format_event returns a block for every such record, with
\* the header; the Date, Venue and Tickets lines are there exactly when the
\* local date, a venue record and the URL are; the Genre line exactly when
\* the first classification names a segment, genre or subgenre other than
\* "undefined"; the Ticket Status line exactly when the status code is one
\* of the five known codes; and the Price line only when a price range is.
C6_LinesOfPresentFields ==
    Formatted =>
        /\ fmtOut.ok
        /\ HeaderOf(fmtEvent, fmtOut)
        /\ HasLine(fmtOut, "Date: ") <=> DateField(fmtEvent)
        /\ HasLine(fmtOut, "Venue: ") <=> VenueField(fmtEvent)
        /\ HasLine(fmtOut, "Genre: ") <=> GenreNamed(fmtEvent)
        /\ HasPriceLine(fmtOut) => PriceField(fmtEvent)
        /\ HasLine(fmtOut, "Ticket Status: ") <=> StatusRecognised(fmtEvent)
        /\ HasLine(fmtOut, "Tickets: ") <=> UrlField(fmtEvent)

\* A record without name and date whose classification names only
\* "undefined": formatted, under the default header, without the Date and
\* Genre lines.
C6_Witness ==
    /\ fmtPc = "formatted"
    /\ fmtOut.ok
    /\ ClassificationField(fmtEvent)
    /\ ~GenreNamed(fmtEvent)
    /\ ~HasLine(fmtOut, "Genre: ")
    /\ ~DateField(fmtEvent)
    /\ ~HasLine(fmtOut, "Date: ")
    /\ "name" \notin DOMAIN fmtEvent.o
    /\ fmtOut.s[3] = "Unknown Event"

\* The price line the claim gives for a price range with a minimum.
ClaimedPriceText(range) ==
    LET currency == IF "currency" \in DOMAIN range.o
                    THEN range.o["currency"].s ELSE <<"USD">> IN
    IF "max" \in DOMAIN range.o
    THEN <<"Price Range: ", ToString(range.o["min"].n), "-",
           ToString(range.o["max"].n), " ">> \o currency
    ELSE <<"Starting Price: ", ToString(range.o["min"].n), " ">> \o currency

\* C7: for a first price range with numeric values the price line of
\* format_event and of check_ticket_availability is "Price Range:
\* <min>-<max> <currency>" with both, "Starting Price: <min> <currency>"
\* with the minimum alone, the currency "USD" by default; the line is left
\* out only without a price range.
C7_PriceLine ==
    LET e == fmtEvent IN
    (PriceField(e) /\ "min" \in DOMAIN e.o["priceRanges"].l[1].o) =>
        LET text == ClaimedPriceText(e.o["priceRanges"].l[1]) IN
        /\ Formatted => IsSubstr(text \o <<NL>>, fmtOut.s)
        /\ fmtPc = "rendered" => IsSubstr(text \o <<NL>>, fmtAvail.s)

\* C8: the key is read at startup and a missing key stops the startup: no
\* tool is served and no request issued without the credential, and every
\* request issued carries the configured key as the parameter apikey.
C8_CredentialRequired ==
    /\ phase \in {"loaded", "serving"} => (apiKey # JNull /\ apiKey # JStr(<<>>))
    /\ Invoked =>
        /\ phase = "serving"
        /\ apiKey.t = "str"
        /\ apiKey.s # <<>>
    /\ \A i \in 1..Len(sent) :
        /\ "apikey" \in DOMAIN sent[i].params
        /\ sent[i].params["apikey"] = apiKey

C8_Witness ==
    /\ pc = "awaiting"
    /\ Len(sent) = 1
    /\ sent[1].params["apikey"] = JStr(<<"k", "e", "y">>)

\* C9: an invocation issues exactly one GET, on a client opened for it, and
\* the client is released before the invocation returns, on every path:
\* success, HTTP error, transport failure and unexpected failure.
C9_OneGetAndRelease ==
    /\ pc = "idle" => (sent = <<>> /\ opened = 0 /\ ~connOpen)
    /\ pc \in {"awaiting", "responded"} => (Len(sent) = 1 /\ opened = 1 /\ connOpen)
    /\ pc \in {"returned", "done"} => (Len(sent) = 1 /\ opened = 1 /\ ~connOpen)

C9_Witness ==
    /\ pc = "done"
    /\ gw = "connection_failed"
    /\ Len(sent) = 1
    /\ ~connOpen

\* C10: for a payload without the path _embedded -> events (the key
\* missing, or present with no events list beneath it) extract_events
\* returns the empty list and does not fail; with the path it returns the
\* list found there.
C10_ExtractEvents ==
    (Returned /\ events.exc # "-") =>
        /\ events.ok
        /\ IF HasEventsPath(data)
           THEN events.v = data.o["_embedded"].o["events"]
           ELSE events.v = JList(<<>>)

====
